---- MODULE Spec2Model ----
(***************************************************************************)
(* The BMI adapters of landlab: BmiSoilMoisture                            *)
(* (components/soil_moisture/bmi.py), BmiStreamPower                       *)
(* (components/diffusion/bmi.py) and BmiOverlandFlow                       *)
(* (components/overland_flow/bmi.py).                                      *)
(*                                                                         *)
(* One adapter object is modelled per behaviour; its class is chosen in    *)
(* Init.  Every public method is one action that runs the whole method,    *)
(* the methods it calls included.                                          *)
(*                                                                         *)
(* Numbers.  Python floats are modelled as exact rationals.  A time is an  *)
(* integer number of ticks (one tick is a tenth of a day, so dt = 1.0 is   *)
(* 10 ticks and 2.3 is 23 ticks).  A dimensionless fraction (dt_frac,      *)
(* tb_frac, n_steps - int(n_steps)) is a pair <<num, den>> with den > 0.   *)
(* Rounding error of the floating-point arithmetic is outside the model.   *)
(*                                                                         *)
(* Python's None is <<>> and a present value v is <<v>>, so that optional  *)
(* fields compare.  An exception is the string naming it; "ok" means the   *)
(* method returned normally.                                               *)
(*                                                                         *)
(* Arrays.  A numpy array is an object with an identity: a grid field is   *)
(* named by its grid and field name, and heap maps every array the adapter *)
(* or its caller can reach to its elements (in tenths).  The caller keeps  *)
(* the array the last get_value / get_value_ptr returned, and may write    *)
(* into it.                                                                *)
(***************************************************************************)
EXTENDS Integers, Sequences, FiniteSets, TLC

VARIABLES
    bmi,        \* the adapter object: its class and its attributes
    last,       \* the last method call: name, arguments, exception, calls made, return value, object before
    nobjects,   \* number of RasterModelGrid objects constructed so far
    heap,       \* the elements of every array reachable from the adapter or its caller
    held        \* the array the caller keeps: the one the last get_value / get_value_ptr returned

vars == <<bmi, last, nobjects, heap, held>>

\* ------------------------------------------------------------------ bounds

MaxTime == 30

MaxInits == 2

\* ------------------------------------------------------- values and inputs

None == <<>>

Some(v) == <<v>>

TheValue(o) == o[1]

OK == "ok"

\* fractions <<num, den>>
Zero == <<0, 1>>

One == <<1, 1>>

FracValues == {<<-1, 2>>, <<0, 1>>, <<1, 2>>, <<1, 1>>, <<3, 2>>}

TbFracValues == {<<-1, 2>>, <<1, 2>>, <<1, 1>>, <<3, 2>>}

DtValues == {-10, 0, 10}

RowValues == {0, 3}

ColValues == {0, 3}

SpacingValues == {0, 1}

TargetValues == {-10, 0, 5, 10, 20, 23, 30}

Times == (0 - MaxTime) .. MaxTime

\* x * f for an integer x and a fraction f; exact on every value the model forms
Scale(x, f) == (x * f[1]) \div f[2]

\* 1 - f
Complement(f) == <<f[2] - f[1], f[2]>>

\* ------------------------------------------------------------- exceptions

NegativeTimeStepError == "ValueError: negative time step"

DtFracError == "ValueError: dt_frac out of bounds"

TbFracError == "ValueError: tb_frac is out of range"

RowsColsError == "ValueError: Non-positive rows or columns"

SpacingError == "ValueError: Non-positive spacing"

TypeError == "TypeError"

AttributeError == "AttributeError"

NameError == "NameError"

NotImplementedError == "NotImplementedError"

ZeroDivisionError == "ZeroDivisionError"

KeyError == "KeyError"

\* numpy's refusal to assign a source to a slice of another length
BroadcastError == "ValueError: could not broadcast input array"

\* an exception raised inside a collaborator (grid, wrapped model, parser)
CollaboratorError == "CollaboratorError"

\* the result of running a method: the object after, the exception ("ok" if
\* none), the calls made in order, and the value returned
Result(a, err, log, ret) == [bmi |-> a, err |-> err, log |-> log, ret |-> ret]

Raise(a, err) == Result(a, err, <<>>, None)

Return(a) == Result(a, OK, <<>>, None)

\* one entry of a call log: callee, caller, arguments
Call(callee, caller, arg) == [call |-> callee, by |-> caller, arg |-> arg]

\* -------------------------------------------------------- BmiSoilMoisture

_NAME_MAP ==
    << <<"vegetated_land__area_fraction", "VegetationCover">>,
       <<"land_vegetation__leaf-area-index", "LiveLeafAreaIndex">>,
       <<"potential_land_surface_water__evaporation_volume_flux", "PotentialEvapotranspiration">>,
       <<"land_surface_water__magnitude_of_shear_stress", "WaterStress">>,
       <<"soil_water__saturated_volume_fraction", "SaturationFraction">>,
       <<"Drainage", "Drainage">>,
       <<"land_surface_water__volume_flow_rate", "Runoff">>,
       <<"land_surface_water__evaporation_volume_flux", "ActualEvapotranspiration">> >>

StandardNames == {_NAME_MAP[i][1] : i \in DOMAIN _NAME_MAP}

LocalName(standard_name) ==
    _NAME_MAP[CHOOSE i \in DOMAIN _NAME_MAP : _NAME_MAP[i][1] = standard_name][2]

\* RasterModelGrid(n_rows, n_cols, spacing): a new grid object with no fields
RasterModelGrid(id, n_rows, n_cols, spacing) ==
    [id |-> id, number_of_node_rows |-> n_rows, number_of_node_columns |-> n_cols,
     node_spacing |-> spacing, fields |-> {}]

\* grid.add_field(...) for each name of a set
add_fields(grid, names) == [grid EXCEPT !.fields = @ \cup names]

\* a reference to the array grid.at_cell[local_name] / grid.at_node[local_name]
FieldRef(grid, local_name) == [grid |-> grid.id, field |-> local_name]

\* the fields the SoilMoisture constructor creates on its grid
SoilMoistureFields ==
    {"WaterStress", "SaturationFraction", "Drainage", "Runoff", "ActualEvapotranspiration"}

\* SoilMoisture(grid): the wrapped model, bound to its grid
SoilMoisture(grid) == [grid |-> grid.id]

EmptyDict == [name \in {} |-> None]

BmiSoilMoisture_input_var_names ==
    << "vegetated_land__area_fraction",
       "land_vegetation__leaf-area-index",
       "potential_land_surface_water__evaporation_volume_flux" >>

BmiSoilMoisture_output_var_names ==
    << "land_surface_water__magnitude_of_shear_stress",
       "soil_water__saturated_volume_fraction",
       "Drainage",
       "land_surface_water__volume_flow_rate",
       "land_surface_water__evaporation_volume_flux" >>

\* BmiSoilMoisture(): _tb_frac is not assigned by __init__ (None stands for the
\* missing attribute, which no method reads before from_keywords sets it)
BmiSoilMoisture__init__ ==
    [class |-> "BmiSoilMoisture", _sm |-> None, _values |-> EmptyDict,
     _time_step |-> None, _time |-> None, _grid |-> None, _tb_frac |-> None]

\* from_keywords as it would be with the assignments of lines 182-184 moved above
\* the checks of lines 175-180
from_keywords_AssignFirst(a, kw, id, built) ==
    LET a1 == [a EXCEPT !._tb_frac = kw.tb_frac,
                        !._time_step = Some(kw.dt),
                        !._time = Some(0)]
        grid == add_fields(add_fields(
                    RasterModelGrid(id, kw.n_rows, kw.n_cols, kw.spacing),
                    {"VegetationCover", "LiveLeafAreaIndex",
                     "PotentialEvapotranspiration", "InitialSaturationFraction"}),
                    SoilMoistureFields)
    IN  IF kw.tb_frac[1] < 0 \/ kw.tb_frac[1] > kw.tb_frac[2]
        THEN Raise(a1, TbFracError)
        ELSE IF kw.n_rows <= 0 \/ kw.n_cols <= 0
        THEN Raise(a1, RowsColsError)
        ELSE IF kw.spacing <= 0
        THEN Raise(a1, SpacingError)
        ELSE IF ~built
        THEN Raise(a1, CollaboratorError)
        ELSE Return([a1 EXCEPT
                !._sm = Some(SoilMoisture(grid)),
                !._grid = Some(grid),
                !._values = [name \in StandardNames |-> FieldRef(grid, LocalName(name))]])

\* from_keywords as it would be without self._time = 0. (line 184): the time
\* stays None on a new object
from_keywords_NoTimeReset(a, kw, id, built) ==
    IF kw.tb_frac[1] < 0 \/ kw.tb_frac[1] > kw.tb_frac[2]
    THEN Raise(a, TbFracError)
    ELSE IF kw.n_rows <= 0 \/ kw.n_cols <= 0
    THEN Raise(a, RowsColsError)
    ELSE IF kw.spacing <= 0
    THEN Raise(a, SpacingError)
    ELSE LET a1 == [a EXCEPT !._tb_frac = kw.tb_frac,
                             !._time_step = Some(kw.dt)]
             grid == add_fields(add_fields(
                         RasterModelGrid(id, kw.n_rows, kw.n_cols, kw.spacing),
                         {"VegetationCover", "LiveLeafAreaIndex",
                          "PotentialEvapotranspiration", "InitialSaturationFraction"}),
                         SoilMoistureFields)
         IN  IF ~built
             THEN Raise(a1, CollaboratorError)
             ELSE Return([a1 EXCEPT
                     !._sm = Some(SoilMoisture(grid)),
                     !._grid = Some(grid),
                     !._values = [name \in StandardNames |-> FieldRef(grid, LocalName(name))]])

\* from_keywords(n_rows, n_cols, spacing, dt, tb_frac); kw is the record of the
\* five keywords, id the identity of the grid it constructs, and built says
\* whether the collaborators' constructors (RasterModelGrid, add_field,
\* SoilMoisture) all return
BmiSoilMoisture_from_keywords(a, kw, id, built) ==
    IF kw.tb_frac[1] < 0 \/ kw.tb_frac[1] > kw.tb_frac[2]
    THEN Raise(a, TbFracError)
    ELSE IF kw.n_rows <= 0 \/ kw.n_cols <= 0
    THEN Raise(a, RowsColsError)
    ELSE IF kw.spacing <= 0
    THEN Raise(a, SpacingError)
    ELSE LET a1 == [a EXCEPT !._tb_frac = kw.tb_frac,
                             !._time_step = Some(kw.dt),
                             !._time = Some(0)]
             grid == add_fields(add_fields(
                         RasterModelGrid(id, kw.n_rows, kw.n_cols, kw.spacing),
                         {"VegetationCover", "LiveLeafAreaIndex",
                          "PotentialEvapotranspiration", "InitialSaturationFraction"}),
                         SoilMoistureFields)
         IN  IF ~built
             THEN Raise(a1, CollaboratorError)
             ELSE Return([a1 EXCEPT
                     !._sm = Some(SoilMoisture(grid)),
                     !._grid = Some(grid),
                     !._values = [name \in StandardNames |-> FieldRef(grid, LocalName(name))]])

\* update_frac as it would be if it advanced the time by a whole time step
\* whatever the fraction
update_frac_WholeStep(a, dt_frac, stepped) ==
    IF dt_frac[1] <= 0 \/ dt_frac[1] > dt_frac[2]
    THEN Raise(a, DtFracError)
    ELSE IF a._time_step = None
    THEN Raise(a, TypeError)
    ELSE LET dt == Scale(TheValue(a._time_step), dt_frac)
             tb == <<dt * a._tb_frac[1], a._tb_frac[2]>>
             tr == <<dt * Complement(a._tb_frac)[1], a._tb_frac[2]>>
             step == Call("SoilMoisture.update", "update_frac",
                          [Tb |-> Scale(24, tb), Tr |-> Scale(24, tr)])
         IN  IF a._sm = None
             THEN Raise(a, AttributeError)
             ELSE IF ~stepped
             THEN Result(a, CollaboratorError, <<step>>, None)
             ELSE Result([a EXCEPT !._time = Some(TheValue(@) + TheValue(a._time_step))],
                         OK, <<step>>, None)

\* update_frac as it would be with self._time += dt placed before the call of
\* the wrapped model
update_frac_TimeFirst(a, dt_frac, stepped) ==
    IF dt_frac[1] <= 0 \/ dt_frac[1] > dt_frac[2]
    THEN Raise(a, DtFracError)
    ELSE IF a._time_step = None
    THEN Raise(a, TypeError)
    ELSE LET dt == Scale(TheValue(a._time_step), dt_frac)
             tb == <<dt * a._tb_frac[1], a._tb_frac[2]>>
             tr == <<dt * Complement(a._tb_frac)[1], a._tb_frac[2]>>
             step == Call("SoilMoisture.update", "update_frac",
                          [Tb |-> Scale(24, tb), Tr |-> Scale(24, tr)])
             a1 == [a EXCEPT !._time = Some(TheValue(@) + dt)]
         IN  IF a._sm = None
             THEN Raise(a1, AttributeError)
             ELSE IF ~stepped
             THEN Result(a1, CollaboratorError, <<step>>, None)
             ELSE Result(a1, OK, <<step>>, None)

\* update_frac as it would be with tr = dt * self._tb_frac, the 1 - forgotten
update_frac_NoComplement(a, dt_frac, stepped) ==
    IF dt_frac[1] <= 0 \/ dt_frac[1] > dt_frac[2]
    THEN Raise(a, DtFracError)
    ELSE IF a._time_step = None
    THEN Raise(a, TypeError)
    ELSE LET dt == Scale(TheValue(a._time_step), dt_frac)
             tb == <<dt * a._tb_frac[1], a._tb_frac[2]>>
             tr == <<dt * a._tb_frac[1], a._tb_frac[2]>>
             step == Call("SoilMoisture.update", "update_frac",
                          [Tb |-> Scale(24, tb), Tr |-> Scale(24, tr)])
         IN  IF a._sm = None
             THEN Raise(a, AttributeError)
             ELSE IF ~stepped
             THEN Result(a, CollaboratorError, <<step>>, None)
             ELSE Result([a EXCEPT !._time = Some(TheValue(@) + dt)], OK, <<step>>, None)

\* update_frac(dt_frac); stepped says whether the wrapped model's update returns
BmiSoilMoisture_update_frac(a, dt_frac, stepped) ==
    IF dt_frac[1] <= 0 \/ dt_frac[1] > dt_frac[2]
    THEN Raise(a, DtFracError)
    ELSE IF a._time_step = None
    THEN Raise(a, TypeError)
    ELSE LET dt == Scale(TheValue(a._time_step), dt_frac)
             tb == <<dt * a._tb_frac[1], a._tb_frac[2]>>
             tr == <<dt * Complement(a._tb_frac)[1], a._tb_frac[2]>>
             step == Call("SoilMoisture.update", "update_frac",
                          [Tb |-> Scale(24, tb), Tr |-> Scale(24, tr)])
         IN  IF a._sm = None
             THEN Raise(a, AttributeError)
             ELSE IF ~stepped
             THEN Result(a, CollaboratorError, <<step>>, None)
             ELSE Result([a EXCEPT !._time = Some(TheValue(@) + dt)], OK, <<step>>, None)

\* update() as it would be if it stepped the wrapped model itself, for a whole
\* time step, without advancing the time
update_StepOnly(a, stepped) ==
    LET r == BmiSoilMoisture_update_frac(a, One, stepped)
    IN  [r EXCEPT !.bmi = a, !.log = <<Call("update_frac", "update", One)>> \o @]

\* update()
BmiSoilMoisture_update(a, stepped) ==
    LET r == BmiSoilMoisture_update_frac(a, One, stepped)
    IN  [r EXCEPT !.log = <<Call("update_frac", "update", One)>> \o @]

\* ---------------------------------------------------------- BmiStreamPower

BmiStreamPower_input_var_names == << "land_surface__elevation" >>

BmiStreamPower_output_var_names ==
    << "land_surface__elevation",
       "land_surface_water_suspended-sediment__divergence_of_unit-width_discharge" >>

BmiStreamPower__init__ ==
    [class |-> "BmiStreamPower", _diffusion |-> None, _grid |-> None, _values |-> EmptyDict]

\* Diffusion(grid, input_stream=params, current_time=0.): the wrapped model keeps
\* the time and reads the time step from the parameters
Diffusion(grid, params, current_time) ==
    [grid |-> grid.id, current_time |-> current_time, dt |-> params.dt]

\* the fields the Diffusion constructor creates on its grid
DiffusionFields == {"landscape_surface__elevation", "sediment_flux_divergence"}

\* run_one_step_internal(delt) of the wrapped model, when it returns
run_one_step_internal(diffusion, delt) ==
    [diffusion EXCEPT !.current_time = @ + delt]

\* initialize as it would be if it bound only the elevation in the variable store
initialize_ElevationOnly(a, params, id, parsed, built) ==
    IF ~parsed
    THEN Raise(a, CollaboratorError)
    ELSE LET grid == RasterModelGrid(id, params.nrows, params.ncols, params.dx)
             a1 == [a EXCEPT !._grid = Some(grid)]
             full == add_fields(grid, DiffusionFields)
         IN  IF ~built
             THEN Raise(a1, CollaboratorError)
             ELSE Return([a1 EXCEPT
                     !._grid = Some(full),
                     !._diffusion = Some(Diffusion(full, params, 0)),
                     !._values =
                         [name \in {"land_surface__elevation"} |->
                             FieldRef(full, "landscape_surface__elevation")]])

\* initialize(filename); params is what the file holds, parsed says whether
\* ModelParameterDictionary reads it, built whether Diffusion(...) returns
BmiStreamPower_initialize(a, params, id, parsed, built) ==
    IF ~parsed
    THEN Raise(a, CollaboratorError)
    ELSE LET grid == RasterModelGrid(id, params.nrows, params.ncols, params.dx)
             a1 == [a EXCEPT !._grid = Some(grid)]
             full == add_fields(grid, DiffusionFields)
         IN  IF ~built
             THEN Raise(a1, CollaboratorError)
             ELSE Return([a1 EXCEPT
                     !._grid = Some(full),
                     !._diffusion = Some(Diffusion(full, params, 0)),
                     !._values =
                         [name \in {"land_surface__elevation",
                                    "land_surface_water_suspended-sediment__divergence_of_unit-width_discharge"} |->
                             IF name = "land_surface__elevation"
                             THEN FieldRef(full, "landscape_surface__elevation")
                             ELSE FieldRef(full, "sediment_flux_divergence")]])

\* update_frac as it would be with the lower bound tested by < in place of <=
update_frac_ZeroAllowed(a, dt_frac, stepped) ==
    IF dt_frac[1] < 0 \/ dt_frac[1] > dt_frac[2]
    THEN Raise(a, DtFracError)
    ELSE IF a._diffusion = None
    THEN Raise(a, AttributeError)
    ELSE LET delt == Scale(TheValue(a._diffusion).dt, dt_frac)
             step == Call("Diffusion.run_one_step_internal", "update_frac", [delt |-> delt])
         IN  IF ~stepped
             THEN Result(a, CollaboratorError, <<step>>, None)
             ELSE Result([a EXCEPT !._diffusion = Some(run_one_step_internal(TheValue(@), delt))],
                         OK, <<step>>, None)

\* update_frac(dt_frac); stepped says whether run_one_step_internal returns
BmiStreamPower_update_frac(a, dt_frac, stepped) ==
    IF dt_frac[1] <= 0 \/ dt_frac[1] > dt_frac[2]
    THEN Raise(a, DtFracError)
    ELSE IF a._diffusion = None
    THEN Raise(a, AttributeError)
    ELSE LET delt == Scale(TheValue(a._diffusion).dt, dt_frac)
             step == Call("Diffusion.run_one_step_internal", "update_frac", [delt |-> delt])
         IN  IF ~stepped
             THEN Result(a, CollaboratorError, <<step>>, None)
             ELSE Result([a EXCEPT !._diffusion = Some(run_one_step_internal(TheValue(@), delt))],
                         OK, <<step>>, None)

\* update()
BmiStreamPower_update(a, stepped) ==
    LET r == BmiStreamPower_update_frac(a, One, stepped)
    IN  [r EXCEPT !.log = <<Call("update_frac", "update", One)>> \o @]

\* --------------------------------------------------------- BmiOverlandFlow

BmiOverlandFlow_input_var_names ==
    << "land_surface_water__depth",
       "atmosphere_water__precipitation_rate",
       "atmosphere_water__precipitation_duration",
       "land_surface__elevation" >>

BmiOverlandFlow_output_var_names ==
    << "land_surface_water__depth",
       "land_surface_water__volume_flow_rate",
       "land_surface_water__magnitude_of_shear_stress",
       "land_surface__slope" >>

BmiOverlandFlow__init__ ==
    [class |-> "BmiOverlandFlow", _overland_flow |-> None, _flow_router |-> None,
     _grid |-> None, _values |-> EmptyDict, _time_step |-> None, _time |-> None]

\* initialize(filename): yaml.load either raises (parsed = FALSE) or returns, and
\* then line 55 calls read_esri_ascii, a name the module neither defines nor
\* imports: NameError, before anything is assigned
BmiOverlandFlow_initialize(a, parsed) ==
    IF ~parsed
    THEN Raise(a, CollaboratorError)
    ELSE Raise(a, NameError)

\* OverlandFlow(grid): the wrapped component, of which the adapter reads
\* model_duration
OverlandFlow(model_duration) == [model_duration |-> model_duration]

\* what initialize assigns after line 55, which no call reaches: the wrapped
\* component, its model_duration as the time step, and the time 0.
initialize_from_line_67(a, model_duration) ==
    [a EXCEPT !._overland_flow = Some(OverlandFlow(model_duration)),
              !._time_step = Some(model_duration),
              !._time = Some(0)]

\* update(): the attribute lookup on self._overland_flow comes first, then the
\* argument z, a name bound nowhere
BmiOverlandFlow_update(a, stepped) ==
    IF a._overland_flow = None
    THEN Raise(a, AttributeError)
    ELSE Raise(a, NameError)

\* update_frac(dt_frac): raises NotImplementedError before self._time += dt
BmiOverlandFlow_update_frac(a, dt_frac, stepped) ==
    IF dt_frac[1] <= 0 \/ dt_frac[1] > dt_frac[2]
    THEN Raise(a, DtFracError)
    ELSE IF a._time_step = None
    THEN Raise(a, TypeError)
    ELSE Raise(a, NotImplementedError)

\* ------------------------------------------------- the three classes' methods

Classes == {"BmiSoilMoisture", "BmiStreamPower", "BmiOverlandFlow"}

\* self.update()
update(a, stepped) ==
    CASE a.class = "BmiSoilMoisture" -> BmiSoilMoisture_update(a, stepped)
      [] a.class = "BmiStreamPower" -> BmiStreamPower_update(a, stepped)
      [] a.class = "BmiOverlandFlow" -> BmiOverlandFlow_update(a, stepped)

\* self.update_frac(dt_frac)
update_frac(a, dt_frac, stepped) ==
    CASE a.class = "BmiSoilMoisture" -> BmiSoilMoisture_update_frac(a, dt_frac, stepped)
      [] a.class = "BmiStreamPower" -> BmiStreamPower_update_frac(a, dt_frac, stepped)
      [] a.class = "BmiOverlandFlow" -> BmiOverlandFlow_update_frac(a, dt_frac, stepped)

\* self.get_current_time(): the value, or the exception reading it raises
get_current_time(a) ==
    CASE a.class = "BmiSoilMoisture" -> Result(a, OK, <<>>, a._time)
      [] a.class = "BmiStreamPower" ->
            IF a._diffusion = None
            THEN Raise(a, AttributeError)
            ELSE Result(a, OK, <<>>, Some(TheValue(a._diffusion).current_time))
      [] a.class = "BmiOverlandFlow" -> Result(a, OK, <<>>, a._time)

\* self.get_time_step()
get_time_step(a) ==
    CASE a.class = "BmiSoilMoisture" -> Result(a, OK, <<>>, a._time_step)
      [] a.class = "BmiStreamPower" ->
            IF a._diffusion = None
            THEN Raise(a, AttributeError)
            ELSE Result(a, OK, <<>>, Some(TheValue(a._diffusion).dt))
      [] a.class = "BmiOverlandFlow" -> Result(a, OK, <<>>, a._time_step)

\* get_start_time()
get_start_time(a) == Result(a, OK, <<>>, Some(0))

Abs(x) == IF x < 0 THEN 0 - x ELSE x

\* n_steps as it would be with int(n_steps) rounding up
n_steps_RoundUp(a, then) ==
    LET now == get_current_time(a)
        step == get_time_step(a)
        fail(e) == [err |-> e, negative |-> FALSE, int |-> 0, frac |-> Zero]
    IN  IF now.err # OK THEN fail(now.err)
        ELSE IF now.ret = None THEN fail(TypeError)
        ELSE IF step.err # OK THEN fail(step.err)
        ELSE IF step.ret = None THEN fail(TypeError)
        ELSE IF TheValue(step.ret) = 0 THEN fail(ZeroDivisionError)
        ELSE LET diff == then - TheValue(now.ret)
                 dt == TheValue(step.ret)
             IN  [err |-> OK,
                  negative |-> diff * dt < 0,
                  int |-> (Abs(diff) + Abs(dt) - 1) \div Abs(dt),
                  frac |-> <<Abs(diff) % Abs(dt), Abs(dt)>>]

\* n_steps = (then - self.get_current_time()) / self.get_time_step(), as the
\* exception the expression raises or else its sign, int(n_steps) and
\* n_steps - int(n_steps)
n_steps(a, then) ==
    LET now == get_current_time(a)
        step == get_time_step(a)
        fail(e) == [err |-> e, negative |-> FALSE, int |-> 0, frac |-> Zero]
    IN  IF now.err # OK THEN fail(now.err)
        ELSE IF now.ret = None THEN fail(TypeError)
        ELSE IF step.err # OK THEN fail(step.err)
        ELSE IF step.ret = None THEN fail(TypeError)
        ELSE IF TheValue(step.ret) = 0 THEN fail(ZeroDivisionError)
        ELSE LET diff == then - TheValue(now.ret)
                 dt == TheValue(step.ret)
             IN  [err |-> OK,
                  negative |-> diff * dt < 0,
                  int |-> Abs(diff) \div Abs(dt),
                  frac |-> <<Abs(diff) % Abs(dt), Abs(dt)>>]

RECURSIVE run_updates(_, _, _, _, _)
\* for _ in xrange(n): self.update(), with i calls already made; the wrapped
\* model's step raises in call number failAt (0: in none)
run_updates(a, i, n, failAt, log) ==
    IF i >= n
    THEN Result(a, OK, log, None)
    ELSE LET r == update(a, failAt # i + 1)
             log1 == log \o <<Call("update", "update_until", <<>>)>> \o r.log
         IN  IF r.err # OK
             THEN Result(r.bmi, r.err, log1, None)
             ELSE run_updates(r.bmi, i + 1, n, failAt, log1)

\* update_until(then) of BmiSoilMoisture
BmiSoilMoisture_update_until(a, then, failAt) ==
    LET n == n_steps(a, then)
        loop == run_updates(a, 0, n.int, failAt, <<>>)
        r == update_frac(loop.bmi, n.frac, failAt # n.int + 1)
    IN  IF n.err # OK THEN Raise(a, n.err)
        ELSE IF n.negative THEN Raise(a, NegativeTimeStepError)
        ELSE IF loop.err # OK THEN loop
        ELSE [r EXCEPT !.log = loop.log \o <<Call("update_frac", "update_until", n.frac)>> \o @]

\* update_until(then) of BmiStreamPower
BmiStreamPower_update_until(a, then, failAt) ==
    LET n == n_steps(a, then)
        loop == run_updates(a, 0, n.int, failAt, <<>>)
        r == update_frac(loop.bmi, n.frac, failAt # n.int + 1)
    IN  IF n.err # OK THEN Raise(a, n.err)
        ELSE IF n.negative THEN Raise(a, NegativeTimeStepError)
        ELSE IF loop.err # OK THEN loop
        ELSE [r EXCEPT !.log = loop.log \o <<Call("update_frac", "update_until", n.frac)>> \o @]

\* update_until(then) of BmiOverlandFlow: the fractional step is commented out
\* and NotImplementedError raised in its place
BmiOverlandFlow_update_until(a, then, failAt) ==
    LET n == n_steps(a, then)
        loop == run_updates(a, 0, n.int, failAt, <<>>)
    IN  IF n.err # OK THEN Raise(a, n.err)
        ELSE IF n.negative THEN Raise(a, NegativeTimeStepError)
        ELSE IF loop.err # OK THEN loop
        ELSE Result(loop.bmi, NotImplementedError, loop.log, None)

\* self.update_until(then)
update_until(a, then, failAt) ==
    CASE a.class = "BmiSoilMoisture" -> BmiSoilMoisture_update_until(a, then, failAt)
      [] a.class = "BmiStreamPower" -> BmiStreamPower_update_until(a, then, failAt)
      [] a.class = "BmiOverlandFlow" -> BmiOverlandFlow_update_until(a, then, failAt)

\* BmiSoilMoisture.initialize(param_file): a str goes to from_path, whose open()
\* reads the unbound name filename; anything else goes to from_file_like, which
\* hands the parsed mapping to from_keywords
BmiSoilMoisture_initialize(a, param_file, id, parsed, built) ==
    IF param_file.type = "str"
    THEN Raise(a, NameError)
    ELSE IF ~parsed
    THEN Raise(a, CollaboratorError)
    ELSE LET r == BmiSoilMoisture_from_keywords(a, param_file.params, id, built)
         IN  [r EXCEPT !.log = <<Call("from_keywords", "from_file_like", param_file.params)>> \o @]

\* ------------------------------------------------------------------ arrays

Range(seq) == {seq[i] : i \in DOMAIN seq}

\* grid.number_of_cells: the cells of a raster grid are its interior nodes
number_of_cells(grid) ==
    IF grid.number_of_node_rows > 2 /\ grid.number_of_node_columns > 2
    THEN (grid.number_of_node_rows - 2) * (grid.number_of_node_columns - 2)
    ELSE 0

\* grid.number_of_nodes
number_of_nodes(grid) == grid.number_of_node_rows * grid.number_of_node_columns

\* the elements a field array has when it is added to its grid: the values
\* from_keywords passes to add_field (np.random.rand(n), np.ones(n) * 3,
\* np.ones(n) * 6, in tenths), and zeros for the fields the wrapped models'
\* constructors add
InitialArray(grid, field, rand) ==
    IF field \in DiffusionFields
    THEN [i \in 1 .. number_of_nodes(grid) |-> 0]
    ELSE [i \in 1 .. number_of_cells(grid) |->
             CASE field = "VegetationCover" -> rand[i]
               [] field = "LiveLeafAreaIndex" -> 30
               [] field = "PotentialEvapotranspiration" -> 60
               [] OTHER -> 0]

\* the arrays of h and one more
Extend(h, ref, val) == [r \in DOMAIN h \cup {ref} |-> IF r = ref THEN val ELSE h[r]]

\* the arrays a successful initializing call has bound in the variable store,
\* added to h with their first elements
NewArrays(h, a, rand) ==
    LET grid == TheValue(a._grid)
        refs == {a._values[name] : name \in DOMAIN a._values}
    IN  [r \in DOMAIN h \cup refs |->
            IF r \in refs THEN InitialArray(grid, r.field, rand) ELSE h[r]]

\* SoilMoisture.update(...), when it returns: it reads the input fields of its
\* grid and writes each of its own fields in place
SoilMoisture_update(h, sm) ==
    LET input(field) == h[[grid |-> sm.grid, field |-> field]]
    IN  [r \in DOMAIN h |->
            IF r.grid = sm.grid /\ r.field \in SoilMoistureFields
            THEN [i \in DOMAIN h[r] |->
                     input("VegetationCover")[i] + input("LiveLeafAreaIndex")[i]
                     + input("PotentialEvapotranspiration")[i]]
            ELSE h[r]]

\* Diffusion.run_one_step_internal(delt), when it returns: it reads the
\* elevations of its grid and writes the flux divergence in place
Diffusion_run_one_step_internal(h, diffusion) ==
    LET z == h[[grid |-> diffusion.grid, field |-> "landscape_surface__elevation"]]
    IN  [r \in DOMAIN h |->
            IF r.grid = diffusion.grid /\ r.field = "sediment_flux_divergence"
            THEN [i \in DOMAIN h[r] |-> z[i]]
            ELSE h[r]]

\* the arrays after one step of the adapter's wrapped model
WrappedStep(h, a) ==
    CASE a.class = "BmiSoilMoisture" -> SoilMoisture_update(h, TheValue(a._sm))
      [] a.class = "BmiStreamPower" -> Diffusion_run_one_step_internal(h, TheValue(a._diffusion))
      [] OTHER -> h

RECURSIVE StepArrays(_, _, _)
\* the arrays after k steps of the wrapped model
StepArrays(h, a, k) == IF k = 0 THEN h ELSE StepArrays(WrappedStep(h, a), a, k - 1)

\* the result of a method with the arrays it leaves
WithHeap(r, h) == [bmi |-> r.bmi, err |-> r.err, log |-> r.log, ret |-> r.ret, heap |-> h]

\* the array ndarray.copy() allocates: a new object, on no grid.  The caller
\* keeps one returned array at a time, so one name serves every copy.
CopyRef == [grid |-> 0, field |-> "copy"]

\* p.copy() for the array a get_value_ptr call returned, or that call's exception
copy(p, name) ==
    IF p.err # OK
    THEN [p EXCEPT !.log = <<Call("get_value_ptr", "get_value", name)>> \o @]
    ELSE [p EXCEPT !.ret = Some(CopyRef),
                   !.heap = Extend(@, CopyRef, p.heap[TheValue(p.ret)]),
                   !.log = <<Call("get_value_ptr", "get_value", name)>> \o @]

RECURSIVE flat(_)
\* src.flat: the elements of a two-dimensional array row after row
flat(src) == IF src = <<>> THEN <<>> ELSE Head(src) \o flat(Tail(src))

\* whether numpy assigns a flat source to val[:]: a source of val's length element
\* for element, a source of one element to every element
Assignable(val, source) == Len(source) = Len(val) \/ Len(source) = 1

\* val after val[:] = source
Assigned(val, source) ==
    IF Len(source) = Len(val) THEN source ELSE [i \in DOMAIN val |-> source[1]]

\* get_value_ptr as it would be if it returned a copy of the stored array
get_value_ptr_Copy(a, h, name) ==
    IF name \in Range(BmiSoilMoisture_output_var_names)
    THEN IF name \in DOMAIN a._values
         THEN WithHeap(Result(a, OK, <<>>, Some(CopyRef)), Extend(h, CopyRef, h[a._values[name]]))
         ELSE WithHeap(Raise(a, KeyError), h)
    ELSE WithHeap(Raise(a, KeyError), h)

\* get_value_ptr as it would be without the test of the name
get_value_ptr_AnyName(a, h, name) ==
    IF name \in DOMAIN a._values
    THEN WithHeap(Result(a, OK, <<>>, Some(a._values[name])), h)
    ELSE WithHeap(Raise(a, KeyError), h)

\* BmiSoilMoisture.get_value_ptr(name)
BmiSoilMoisture_get_value_ptr(a, h, name) ==
    IF name \in Range(BmiSoilMoisture_output_var_names)
    THEN IF name \in DOMAIN a._values
         THEN WithHeap(Result(a, OK, <<>>, Some(a._values[name])), h)
         ELSE WithHeap(Raise(a, KeyError), h)
    ELSE WithHeap(Raise(a, KeyError), h)

\* get_value as it would be without .copy()
get_value_NoCopy(a, h, name) ==
    LET p == BmiSoilMoisture_get_value_ptr(a, h, name)
    IN  [p EXCEPT !.log = <<Call("get_value_ptr", "get_value", name)>> \o @]

\* BmiSoilMoisture.get_value(name)
BmiSoilMoisture_get_value(a, h, name) == copy(BmiSoilMoisture_get_value_ptr(a, h, name), name)

\* BmiSoilMoisture.set_value(name, src)
BmiSoilMoisture_set_value(a, h, name, src) ==
    IF name \in Range(BmiSoilMoisture_input_var_names)
    THEN IF name \in DOMAIN a._values
         THEN LET val == a._values[name]
              IN  IF Assignable(h[val], flat(src))
                  THEN WithHeap(Return(a), [h EXCEPT ![val] = Assigned(@, flat(src))])
                  ELSE WithHeap(Raise(a, BroadcastError), h)
         ELSE WithHeap(Raise(a, KeyError), h)
    ELSE WithHeap(Raise(a, KeyError), h)

\* BmiStreamPower.get_value_ptr(name)
BmiStreamPower_get_value_ptr(a, h, name) ==
    IF name \in Range(BmiStreamPower_output_var_names)
    THEN IF name \in DOMAIN a._values
         THEN WithHeap(Result(a, OK, <<>>, Some(a._values[name])), h)
         ELSE WithHeap(Raise(a, KeyError), h)
    ELSE WithHeap(Raise(a, KeyError), h)

\* BmiStreamPower.get_value(name)
BmiStreamPower_get_value(a, h, name) == copy(BmiStreamPower_get_value_ptr(a, h, name), name)

\* set_value as it would be if it bound the name to a new array holding the
\* source, in place of writing into the stored one
set_value_Rebind(a, h, name, src) ==
    IF name \in Range(BmiStreamPower_input_var_names)
    THEN IF name \in DOMAIN a._values
         THEN IF Assignable(h[a._values[name]], flat(src))
              THEN WithHeap(Return([a EXCEPT !._values[name] = CopyRef]),
                            Extend(h, CopyRef, Assigned(h[a._values[name]], flat(src))))
              ELSE WithHeap(Raise(a, BroadcastError), h)
         ELSE WithHeap(Raise(a, KeyError), h)
    ELSE WithHeap(Raise(a, KeyError), h)

\* BmiStreamPower.set_value(name, src)
BmiStreamPower_set_value(a, h, name, src) ==
    IF name \in Range(BmiStreamPower_input_var_names)
    THEN IF name \in DOMAIN a._values
         THEN LET val == a._values[name]
              IN  IF Assignable(h[val], flat(src))
                  THEN WithHeap(Return(a), [h EXCEPT ![val] = Assigned(@, flat(src))])
                  ELSE WithHeap(Raise(a, BroadcastError), h)
         ELSE WithHeap(Raise(a, KeyError), h)
    ELSE WithHeap(Raise(a, KeyError), h)

\* BmiOverlandFlow.get_value_ptr(name)
BmiOverlandFlow_get_value_ptr(a, h, name) ==
    IF name \in Range(BmiOverlandFlow_output_var_names)
    THEN IF name \in DOMAIN a._values
         THEN WithHeap(Result(a, OK, <<>>, Some(a._values[name])), h)
         ELSE WithHeap(Raise(a, KeyError), h)
    ELSE WithHeap(Raise(a, KeyError), h)

\* BmiOverlandFlow.get_value(name)
BmiOverlandFlow_get_value(a, h, name) == copy(BmiOverlandFlow_get_value_ptr(a, h, name), name)

\* BmiOverlandFlow.set_value(name, src)
BmiOverlandFlow_set_value(a, h, name, src) ==
    IF name \in Range(BmiOverlandFlow_input_var_names)
    THEN IF name \in DOMAIN a._values
         THEN LET val == a._values[name]
              IN  IF Assignable(h[val], flat(src))
                  THEN WithHeap(Return(a), [h EXCEPT ![val] = Assigned(@, flat(src))])
                  ELSE WithHeap(Raise(a, BroadcastError), h)
         ELSE WithHeap(Raise(a, KeyError), h)
    ELSE WithHeap(Raise(a, KeyError), h)

\* self.get_value_ptr(name)
get_value_ptr(a, h, name) ==
    CASE a.class = "BmiSoilMoisture" -> BmiSoilMoisture_get_value_ptr(a, h, name)
      [] a.class = "BmiStreamPower" -> BmiStreamPower_get_value_ptr(a, h, name)
      [] a.class = "BmiOverlandFlow" -> BmiOverlandFlow_get_value_ptr(a, h, name)

\* self.get_value(name)
get_value(a, h, name) ==
    CASE a.class = "BmiSoilMoisture" -> BmiSoilMoisture_get_value(a, h, name)
      [] a.class = "BmiStreamPower" -> BmiStreamPower_get_value(a, h, name)
      [] a.class = "BmiOverlandFlow" -> BmiOverlandFlow_get_value(a, h, name)

\* self.set_value(name, src)
set_value(a, h, name, src) ==
    CASE a.class = "BmiSoilMoisture" -> BmiSoilMoisture_set_value(a, h, name, src)
      [] a.class = "BmiStreamPower" -> BmiStreamPower_set_value(a, h, name, src)
      [] a.class = "BmiOverlandFlow" -> BmiOverlandFlow_set_value(a, h, name, src)

\* self._input_var_names and self._output_var_names, as sets
input_names(a) ==
    CASE a.class = "BmiSoilMoisture" -> Range(BmiSoilMoisture_input_var_names)
      [] a.class = "BmiStreamPower" -> Range(BmiStreamPower_input_var_names)
      [] a.class = "BmiOverlandFlow" -> Range(BmiOverlandFlow_input_var_names)

output_names(a) ==
    CASE a.class = "BmiSoilMoisture" -> Range(BmiSoilMoisture_output_var_names)
      [] a.class = "BmiStreamPower" -> Range(BmiStreamPower_output_var_names)
      [] a.class = "BmiOverlandFlow" -> Range(BmiOverlandFlow_output_var_names)

\* ---------------------------------------------------------------- metadata

\* grid.number_of_cell_rows and grid.number_of_cell_columns: the cells of a
\* raster grid are its interior nodes
number_of_cell_rows(grid) == grid.number_of_node_rows - 2

number_of_cell_columns(grid) == grid.number_of_node_columns - 2

\* get_grid_shape as it would be if it reported the node shape for cell fields
get_grid_shape_OfNodes(a, name) ==
    IF a._grid = None
    THEN Raise(a, AttributeError)
    ELSE Result(a, OK, <<>>, Some(<<TheValue(a._grid).number_of_node_rows,
                                    TheValue(a._grid).number_of_node_columns>>))

\* BmiSoilMoisture.get_grid_shape(name): the name is not looked at
BmiSoilMoisture_get_grid_shape(a, name) ==
    IF a._grid = None
    THEN Raise(a, AttributeError)
    ELSE Result(a, OK, <<>>, Some(<<number_of_cell_rows(TheValue(a._grid)),
                                    number_of_cell_columns(TheValue(a._grid))>>))

\* BmiStreamPower.get_grid_shape(name)
BmiStreamPower_get_grid_shape(a, name) ==
    IF a._grid = None
    THEN Raise(a, AttributeError)
    ELSE Result(a, OK, <<>>, Some(<<TheValue(a._grid).number_of_node_rows,
                                    TheValue(a._grid).number_of_node_columns>>))

\* BmiOverlandFlow.get_grid_shape(name)
BmiOverlandFlow_get_grid_shape(a, name) ==
    IF a._grid = None
    THEN Raise(a, AttributeError)
    ELSE Result(a, OK, <<>>, Some(<<TheValue(a._grid).number_of_node_rows,
                                    TheValue(a._grid).number_of_node_columns>>))

\* self.get_grid_shape(name)
get_grid_shape(a, name) ==
    CASE a.class = "BmiSoilMoisture" -> BmiSoilMoisture_get_grid_shape(a, name)
      [] a.class = "BmiStreamPower" -> BmiStreamPower_get_grid_shape(a, name)
      [] a.class = "BmiOverlandFlow" -> BmiOverlandFlow_get_grid_shape(a, name)

\* get_grid_spacing(name), the same in the three classes
get_grid_spacing(a, name) ==
    IF a._grid = None
    THEN Raise(a, AttributeError)
    ELSE Result(a, OK, <<>>, Some(<<TheValue(a._grid).node_spacing,
                                    TheValue(a._grid).node_spacing>>))

\* get_grid_origin(name), the same in the three classes
get_grid_origin(a, name) == Result(a, OK, <<>>, Some(<<0, 0>>))

\* the class attribute _name
_name(class) ==
    CASE class = "BmiSoilMoisture" -> "Soil Moisture"
      [] class = "BmiStreamPower" -> "Diffusion"
      [] class = "BmiOverlandFlow" -> "Overland Flow"

\* the class attributes _input_var_names and _output_var_names
_input_var_names(class) ==
    CASE class = "BmiSoilMoisture" -> BmiSoilMoisture_input_var_names
      [] class = "BmiStreamPower" -> BmiStreamPower_input_var_names
      [] class = "BmiOverlandFlow" -> BmiOverlandFlow_input_var_names

_output_var_names(class) ==
    CASE class = "BmiSoilMoisture" -> BmiSoilMoisture_output_var_names
      [] class = "BmiStreamPower" -> BmiStreamPower_output_var_names
      [] class = "BmiOverlandFlow" -> BmiOverlandFlow_output_var_names

\* get_component_name()
get_component_name(a) == Result(a, OK, <<>>, Some(_name(a.class)))

\* get_input_var_names()
get_input_var_names(a) == Result(a, OK, <<>>, Some(_input_var_names(a.class)))

\* get_output_var_names()
get_output_var_names(a) == Result(a, OK, <<>>, Some(_output_var_names(a.class)))

\* np.finfo('d').max, the largest double: no time of the model is later
finfo_d_max == "np.finfo('d').max"

\* get_end_time()
get_end_time(a) == Result(a, OK, <<>>, Some(finfo_d_max))

\* get_time_units()
get_time_units(a) == Result(a, OK, <<>>, Some("d"))

\* ------------------------------------------------------------ state machine

\* from_keywords gets past its checks and constructs a grid
ValidKeywords(kw) ==
    /\ kw.tb_frac[1] >= 0 /\ kw.tb_frac[1] <= kw.tb_frac[2]
    /\ kw.n_rows > 0 /\ kw.n_cols > 0
    /\ kw.spacing > 0

\* the number of keywords from_keywords rejects
InvalidCount(kw) ==
    (IF kw.tb_frac[1] < 0 \/ kw.tb_frac[1] > kw.tb_frac[2] THEN 1 ELSE 0)
    + (IF kw.n_rows <= 0 THEN 1 ELSE 0) + (IF kw.n_cols <= 0 THEN 1 ELSE 0)
    + (IF kw.spacing <= 0 THEN 1 ELSE 0)

\* the keyword sets a driver passes: every time step with valid keywords, and
\* with dt = 1.0 the sets with one invalid keyword and with all four invalid
Keywords ==
    {kw \in [n_rows : RowValues, n_cols : ColValues, spacing : SpacingValues,
             dt : DtValues, tb_frac : TbFracValues] :
        ValidKeywords(kw) \/ (kw.dt = 10 /\ InvalidCount(kw) \in {1, 4})}

\* the keyword sets read from a parameter stream
FileKeywords == {kw \in Keywords : kw.tb_frac = One}

DiffusionParams == [nrows : {3}, ncols : {3}, dx : {1}, dt : DtValues]

\* the adapter has been initialized: its wrapped model exists
Ready(a) ==
    CASE a.class = "BmiSoilMoisture" -> a._sm # None
      [] a.class = "BmiStreamPower" -> a._diffusion # None
      [] a.class = "BmiOverlandFlow" -> a._overland_flow # None

\* the time an object is at, None before initialization
TimeOf(a) == get_current_time(a).ret

InRange(a) == IF TimeOf(a) = None THEN TRUE ELSE TheValue(TimeOf(a)) \in Times

New(class) ==
    CASE class = "BmiSoilMoisture" -> BmiSoilMoisture__init__
      [] class = "BmiStreamPower" -> BmiStreamPower__init__
      [] class = "BmiOverlandFlow" -> BmiOverlandFlow__init__

\* the arrays the adapter's variable store names and the one the caller keeps
Reachable(a, hd) ==
    {a._values[name] : name \in DOMAIN a._values}
    \cup (IF hd = None THEN {} ELSE {TheValue(hd).ref})

EmptyHeap == [r \in {} |-> <<>>]

\* record a finished call; hd is the array the caller keeps after it, and arrays
\* that neither the adapter nor the caller can reach any more are forgotten
Done(op, args, r, hd) ==
    /\ InRange(r.bmi)
    /\ bmi' = r.bmi
    /\ held' = hd
    /\ heap' = [ref \in DOMAIN r.heap \cap Reachable(r.bmi, hd) |-> r.heap[ref]]
    /\ last' = [op |-> op, args |-> args, err |-> r.err, log |-> r.log,
                ret |-> r.ret, pre |-> bmi, heap |-> heap]

\* the values np.random.rand draws, in tenths
RandValues == {2, 7}

\* the result of an initializing call with the arrays it leaves: a call that
\* returns has allocated the arrays it bound
Initialized(r, rand) ==
    WithHeap(r, IF r.err = OK THEN NewArrays(heap, r.bmi, rand) ELSE heap)

\* the wrapped-model steps of a finished call that returned
StepsTaken(r) ==
    LET n == Len(SelectSeq(r.log, LAMBDA e : e.call \in {"SoilMoisture.update",
                                                         "Diffusion.run_one_step_internal"}))
    IN  IF r.err = CollaboratorError THEN n - 1 ELSE n

\* the result of a stepping call with the arrays its wrapped-model steps leave
Stepped(r) == WithHeap(r, StepArrays(heap, bmi, StepsTaken(r)))

Init ==
    /\ \E class \in Classes : bmi = New(class)
    /\ last = [op |-> "__init__", args |-> <<>>, err |-> OK, log |-> <<>>,
               ret |-> None, pre |-> bmi, heap |-> EmptyHeap]
    /\ nobjects = 0
    /\ heap = EmptyHeap
    /\ held = None

\* the arrays np.random.rand(n) may return
RandArrays(n) == [1 .. n -> RandValues]

\* from_keywords(**kw) for one of the keyword sets kws
FromKeywordsOf(kws) ==
    /\ bmi.class = "BmiSoilMoisture"
    /\ \E kw \in kws, built \in BOOLEAN :
          /\ ValidKeywords(kw) => nobjects < MaxInits
          /\ ~ValidKeywords(kw) => built
          /\ nobjects' = IF ValidKeywords(kw) THEN nobjects + 1 ELSE nobjects
          /\ LET r == BmiSoilMoisture_from_keywords(bmi, kw, nobjects + 1, built)
                 n == IF r.err = OK THEN number_of_cells(TheValue(r.bmi._grid)) ELSE 0
             IN  \E rand \in RandArrays(n) :
                     Done("from_keywords", <<kw>>, Initialized(r, rand), held)

FromKeywords == FromKeywordsOf(Keywords)

InitializeSoilMoisture ==
    /\ bmi.class = "BmiSoilMoisture"
    /\ \E type \in {"str", "file"}, kw \in FileKeywords, parsed \in BOOLEAN, built \in BOOLEAN :
          LET made == type = "file" /\ parsed /\ ValidKeywords(kw)
          IN  /\ made => nobjects < MaxInits
              /\ ~made => built
              /\ type = "str" => parsed /\ kw = CHOOSE k \in FileKeywords : ValidKeywords(k)
              /\ ~parsed => kw = CHOOSE k \in FileKeywords : ValidKeywords(k)
              /\ nobjects' = IF made THEN nobjects + 1 ELSE nobjects
              /\ LET r == BmiSoilMoisture_initialize(bmi, [type |-> type, params |-> kw],
                                                     nobjects + 1, parsed, built)
                     n == IF r.err = OK THEN number_of_cells(TheValue(r.bmi._grid)) ELSE 0
                 IN  \E rand \in RandArrays(n) :
                         Done("initialize", <<[type |-> type, params |-> kw]>>,
                              Initialized(r, rand), held)

\* initialize(filename) for a file holding one of the parameter sets ps
InitializeStreamPowerOf(ps) ==
    /\ bmi.class = "BmiStreamPower"
    /\ \E params \in ps, parsed \in BOOLEAN, built \in BOOLEAN :
          /\ parsed => nobjects < MaxInits
          /\ ~parsed => built
          /\ nobjects' = IF parsed THEN nobjects + 1 ELSE nobjects
          /\ Done("initialize", <<params>>,
                  Initialized(BmiStreamPower_initialize(bmi, params, nobjects + 1, parsed, built),
                              <<>>),
                  held)

InitializeStreamPower == InitializeStreamPowerOf(DiffusionParams)

InitializeOverlandFlow ==
    /\ bmi.class = "BmiOverlandFlow"
    /\ \E parsed \in BOOLEAN :
          Done("initialize", <<parsed>>,
               Initialized(BmiOverlandFlow_initialize(bmi, parsed), <<>>), held)
    /\ UNCHANGED nobjects

Update ==
    /\ \E stepped \in BOOLEAN : Done("update", <<>>, Stepped(update(bmi, stepped)), held)
    /\ UNCHANGED nobjects

UpdateFrac ==
    /\ \E dt_frac \in FracValues, stepped \in BOOLEAN :
          Done("update_frac", <<dt_frac>>, Stepped(update_frac(bmi, dt_frac, stepped)), held)
    /\ UNCHANGED nobjects

UpdateUntil ==
    /\ \E then \in TargetValues :
          \E failAt \in 0 .. (n_steps(bmi, then).int + 1) :
              Done("update_until", <<then>>, Stepped(update_until(bmi, then, failAt)), held)
    /\ UNCHANGED nobjects

GetCurrentTime ==
    /\ Done("get_current_time", <<>>, WithHeap(get_current_time(bmi), heap), held)
    /\ UNCHANGED nobjects

GetTimeStep ==
    /\ Done("get_time_step", <<>>, WithHeap(get_time_step(bmi), heap), held)
    /\ UNCHANGED nobjects

GetStartTime ==
    /\ Done("get_start_time", <<>>, WithHeap(get_start_time(bmi), heap), held)
    /\ UNCHANGED nobjects

\* the names a driver asks for: of each class an input, an output, a name that is
\* both where the class has one, and a name the class does not declare
NameValues(class) ==
    CASE class = "BmiSoilMoisture" ->
            {"vegetated_land__area_fraction", "Drainage", "land_surface__slope"}
      [] class = "BmiStreamPower" ->
            {"land_surface__elevation",
             "land_surface_water_suspended-sediment__divergence_of_unit-width_discharge",
             "land_surface__slope"}
      [] class = "BmiOverlandFlow" ->
            {"land_surface_water__depth", "atmosphere_water__precipitation_rate",
             "land_surface__slope", "Drainage"}

\* the length of the array a name is bound to, 2 where it is bound to none
TargetLen(name) == IF name \in DOMAIN bmi._values THEN Len(heap[bmi._values[name]]) ELSE 2

\* the sources a driver writes to a target of n elements: none, one element, n
\* elements as one row and as one column, and n + 1 elements
SourceValues(n) ==
    { <<>>, << <<7>> >>, << [i \in 1 .. n |-> 10 + i] >>, [i \in 1 .. n |-> <<10 + i>>],
      << [i \in 1 .. n + 1 |-> 4] >> }

\* what the caller keeps of a call that returned an array
Kept(r, op, name) ==
    IF r.err = OK THEN Some([ref |-> TheValue(r.ret), by |-> op, name |-> name]) ELSE held

GetValue ==
    /\ \E name \in NameValues(bmi.class) :
          LET r == get_value(bmi, heap, name)
          IN  Done("get_value", <<name>>, r, Kept(r, "get_value", name))
    /\ UNCHANGED nobjects

GetValuePtr ==
    /\ \E name \in NameValues(bmi.class) :
          LET r == get_value_ptr(bmi, heap, name)
          IN  Done("get_value_ptr", <<name>>, r, Kept(r, "get_value_ptr", name))
    /\ UNCHANGED nobjects

SetValue ==
    /\ \E name \in NameValues(bmi.class) :
          \E src \in SourceValues(TargetLen(name)) :
              Done("set_value", <<name, src>>, set_value(bmi, heap, name, src), held)
    /\ UNCHANGED nobjects

\* the caller writes 9.9 to every element of the array it keeps
CallerWrite ==
    /\ held # None
    /\ Done("caller_write", <<TheValue(held).ref>>,
            WithHeap(Return(bmi),
                     [heap EXCEPT ![TheValue(held).ref] = [i \in DOMAIN @ |-> 99]]),
            held)
    /\ UNCHANGED nobjects

GetGridShape ==
    /\ \E name \in NameValues(bmi.class) :
          Done("get_grid_shape", <<name>>, WithHeap(get_grid_shape(bmi, name), heap), held)
    /\ UNCHANGED nobjects

GetGridSpacing ==
    /\ \E name \in NameValues(bmi.class) :
          Done("get_grid_spacing", <<name>>, WithHeap(get_grid_spacing(bmi, name), heap), held)
    /\ UNCHANGED nobjects

GetGridOrigin ==
    /\ \E name \in NameValues(bmi.class) :
          Done("get_grid_origin", <<name>>, WithHeap(get_grid_origin(bmi, name), heap), held)
    /\ UNCHANGED nobjects

GetComponentName ==
    /\ Done("get_component_name", <<>>, WithHeap(get_component_name(bmi), heap), held)
    /\ UNCHANGED nobjects

GetInputVarNames ==
    /\ Done("get_input_var_names", <<>>, WithHeap(get_input_var_names(bmi), heap), held)
    /\ UNCHANGED nobjects

GetOutputVarNames ==
    /\ Done("get_output_var_names", <<>>, WithHeap(get_output_var_names(bmi), heap), held)
    /\ UNCHANGED nobjects

GetEndTime ==
    /\ Done("get_end_time", <<>>, WithHeap(get_end_time(bmi), heap), held)
    /\ UNCHANGED nobjects

GetTimeUnits ==
    /\ Done("get_time_units", <<>>, WithHeap(get_time_units(bmi), heap), held)
    /\ UNCHANGED nobjects

Next ==
    \/ FromKeywords
    \/ InitializeSoilMoisture
    \/ InitializeStreamPower
    \/ InitializeOverlandFlow
    \/ Update
    \/ UpdateFrac
    \/ UpdateUntil
    \/ GetCurrentTime
    \/ GetTimeStep
    \/ GetStartTime

Spec == Init /\ [][Next]_vars

\* the keywords and parameters of a driver that exchanges values: grids with
\* more than one cell, a time step of two days
ExchangeKeywords ==
    {[n_rows |-> 3, n_cols |-> 4, spacing |-> 1, dt |-> 20, tb_frac |-> One]}

ExchangeParams == {[nrows |-> 3, ncols |-> 3, dx |-> 1, dt |-> 20]}

NextExchange ==
    \/ FromKeywordsOf(ExchangeKeywords)
    \/ InitializeStreamPowerOf(ExchangeParams)
    \/ InitializeOverlandFlow
    \/ Update
    \/ GetValue
    \/ GetValuePtr
    \/ SetValue
    \/ CallerWrite

\* a driver that initializes, steps by whole time steps and exchanges values
SpecExchange == Init /\ [][NextExchange]_vars

\* the keywords of a driver that asks for the metadata: the grid of the exchange,
\* and a grid of one cell with a time step of minus one day
MetadataKeywords ==
    ExchangeKeywords
    \cup {[n_rows |-> 3, n_cols |-> 3, spacing |-> 1, dt |-> -10, tb_frac |-> One]}

NextMetadata ==
    \/ FromKeywordsOf(MetadataKeywords)
    \/ InitializeStreamPowerOf(ExchangeParams)
    \/ InitializeOverlandFlow
    \/ Update
    \/ GetValue
    \/ GetComponentName
    \/ GetInputVarNames
    \/ GetOutputVarNames
    \/ GetStartTime
    \/ GetEndTime
    \/ GetCurrentTime
    \/ GetTimeStep
    \/ GetTimeUnits
    \/ GetGridShape
    \/ GetGridSpacing
    \/ GetGridOrigin

\* a driver that initializes, steps by whole time steps, reads values and asks
\* for the metadata
SpecMetadata == Init /\ [][NextMetadata]_vars

\* ------------------------------------------------------------------ claims

\* the error kinds of the specification, as the exceptions the code raises
ErrorKind(err) ==
    CASE err = OK -> "none"
      [] err = NegativeTimeStepError -> "NegativeTimeStep"
      [] err = DtFracError -> "OutOfRange"
      [] err \in {TbFracError, RowsColsError, SpacingError} -> "InvalidParameter"
      [] err = KeyError -> "UnknownVariable"
      [] err = BroadcastError -> "ShapeMismatch"
      [] OTHER -> "unclassified"

SteppingOps == {"update", "update_frac", "update_until"}

WrappedSteps == {"SoilMoisture.update", "Diffusion.run_one_step_internal"}

\* the calls of a log made by one caller
CallsBy(log, caller) == SelectSeq(log, LAMBDA e : e.by = caller)

\* the wrapped-model invocations of a log
WrappedCalls(log) == SelectSeq(log, LAMBDA e : e.call \in WrappedSteps)

\* the duration, in ticks, a wrapped-model invocation was asked to advance
\* (SoilMoisture.update gets it as Tb + Tr hours)
WrappedDt(e) ==
    IF e.call = "SoilMoisture.update" THEN (e.arg.Tb + e.arg.Tr) \div 24 ELSE e.arg.delt

PreTime == TheValue(TimeOf(last.pre))

PreTimeStep == TheValue(get_time_step(last.pre).ret)

NoCollaboratorFailure == last.err # CollaboratorError

\* C1: on a Ready adapter, update_until(target_time) with target_time >=
\* current_time returns with current_time equal to target_time (the wrapped model
\* not failing); stated for the soil-moisture adapter with a positive time step
C1_UpdateUntilReachesTarget ==
    ( /\ bmi.class = "BmiSoilMoisture"
      /\ last.op = "update_until"
      /\ Ready(last.pre)
      /\ PreTimeStep > 0
      /\ last.args[1] >= PreTime
      /\ NoCollaboratorFailure )
    => /\ last.err = OK
       /\ TimeOf(bmi) = Some(last.args[1])

\* the update()/update_frac() calls the specification prescribes for n steps:
\* floor(n) update() calls, then update_frac(n - floor(n)) iff the rest is > 0
PrescribedCalls(n) ==
    [i \in 1 .. n.int |-> Call("update", "update_until", <<>>)]
    \o (IF n.frac[1] > 0 THEN <<Call("update_frac", "update_until", n.frac)>> ELSE <<>>)

\* C2: update_until on a Ready adapter with n >= 0 makes floor(n) update() calls
\* and then one update_frac(n - floor(n)) call iff that rest is positive, and
\* never fails with OutOfRange; stated for the soil-moisture adapter with a
\* positive time step
C2_UpdateUntilCalls ==
    ( /\ bmi.class = "BmiSoilMoisture"
      /\ last.op = "update_until"
      /\ Ready(last.pre)
      /\ PreTimeStep > 0
      /\ n_steps(last.pre, last.args[1]).err = OK
      /\ ~n_steps(last.pre, last.args[1]).negative
      /\ NoCollaboratorFailure )
    => /\ CallsBy(last.log, "update_until") = PrescribedCalls(n_steps(last.pre, last.args[1]))
       /\ ErrorKind(last.err) # "OutOfRange"

\* C3: on a Ready adapter a successful update_frac(fraction), 0 < fraction <= 1,
\* invokes the wrapped model's step once with dt = time_step * fraction, advances
\* current_time by exactly that, and leaves time_step and the variable store alone
C3_UpdateFracAdvances ==
    ( /\ last.op = "update_frac"
      /\ Ready(last.pre)
      /\ last.err = OK )
    => /\ last.args[1][1] > 0 /\ last.args[1][1] <= last.args[1][2]
       /\ Len(WrappedCalls(last.log)) = 1
       /\ WrappedDt(WrappedCalls(last.log)[1]) = Scale(PreTimeStep, last.args[1])
       /\ TimeOf(bmi) = Some(PreTime + Scale(PreTimeStep, last.args[1]))
       /\ get_time_step(bmi).ret = get_time_step(last.pre).ret
       /\ bmi._values = last.pre._values

C3_Witness ==
    /\ last.op = "update_frac"
    /\ Ready(last.pre)
    /\ last.err = OK
    /\ last.args[1] = <<1, 2>>
    /\ PreTime > 0
    /\ TimeOf(bmi) = Some(PreTime + 5)

\* C4: in a Ready state update() does what update_frac(1.0) does: the same object
\* after, the same exception or none, the same wrapped-model invocation; and a
\* successful update() advances current_time by one time_step
C4_UpdateIsUpdateFracOne ==
    ( /\ last.op = "update"
      /\ Ready(last.pre) )
    => /\ \E stepped \in BOOLEAN :
             LET r == update_frac(last.pre, One, stepped)
             IN  /\ bmi = r.bmi
                 /\ last.err = r.err
                 /\ WrappedCalls(last.log) = WrappedCalls(r.log)
       /\ last.err = OK => TimeOf(bmi) = Some(PreTime + PreTimeStep)

C4_Witness ==
    /\ last.op = "update"
    /\ Ready(last.pre)
    /\ last.err = OK
    /\ PreTime = 10
    /\ TimeOf(bmi) = Some(20)

\* C5: update_until(target_time) with target_time < current_time on a Ready
\* adapter fails with NegativeTimeStep, makes no update()/update_frac() call and
\* leaves the adapter as it was; stated for the soil-moisture adapter
C5_UpdateUntilBackwards ==
    ( /\ bmi.class = "BmiSoilMoisture"
      /\ last.op = "update_until"
      /\ Ready(last.pre)
      /\ last.args[1] < PreTime )
    => /\ ErrorKind(last.err) = "NegativeTimeStep"
       /\ last.log = <<>>
       /\ bmi = last.pre

OutOfRange(f) == f[1] <= 0 \/ f[1] > f[2]

\* C6: update_frac(fraction) with fraction <= 0 or fraction > 1 fails with
\* OutOfRange in every adapter and every state, invokes no wrapped model and
\* leaves the object as it was; the same holds of an update_frac call made
\* inside another method, which ends that method
C6_UpdateFracOutOfRange ==
    /\ ( /\ last.op = "update_frac"
         /\ OutOfRange(last.args[1]) )
       => /\ ErrorKind(last.err) = "OutOfRange"
          /\ last.log = <<>>
          /\ bmi = last.pre
    /\ \A i \in DOMAIN last.log :
          ( /\ last.log[i].call = "update_frac"
            /\ OutOfRange(last.log[i].arg) )
          => /\ i = Len(last.log)
             /\ ErrorKind(last.err) = "OutOfRange"

C6_Witness ==
    /\ bmi.class = "BmiStreamPower"
    /\ last.op = "update_frac"
    /\ Ready(last.pre)
    /\ last.args[1] = Zero
    /\ last.err = DtFracError
    /\ PreTime > 0

\* C7: a failed update_frac, and so a failed update, leaves current_time at its
\* value before the call, also when it is the wrapped model's step that fails
C7_FailedStepKeepsTime ==
    ( /\ last.op \in {"update", "update_frac"}
      /\ last.err # OK )
    => TimeOf(bmi) = TimeOf(last.pre)

C7_Witness ==
    /\ bmi.class = "BmiSoilMoisture"
    /\ last.op = "update_frac"
    /\ Ready(last.pre)
    /\ last.err = CollaboratorError
    /\ Len(WrappedCalls(last.log)) = 1
    /\ TimeOf(bmi) = Some(5)

\* C8: update(), update_frac(f) and update_until(t) called before a successful
\* initialize fail with InvalidState and leave the object as it was
C8_SteppingBeforeInitialize ==
    ( /\ last.op \in SteppingOps
      /\ ~Ready(last.pre) )
    => /\ ErrorKind(last.err) = "InvalidState"
       /\ bmi = last.pre

\* the keyword records handed to from_keywords by the last call, directly or
\* through initialize
KeywordsGiven ==
    IF last.op = "from_keywords"
    THEN {last.args[1]}
    ELSE {last.log[i].arg : i \in {j \in DOMAIN last.log : last.log[j].call = "from_keywords"}}

\* C9: from_keywords with tb_frac outside [0,1], n_rows <= 0, n_cols <= 0 or
\* spacing <= 0 fails with InvalidParameter and changes no attribute, whether
\* the adapter was Uninitialized or Ready
C9_InvalidKeywordsMutateNothing ==
    \A kw \in KeywordsGiven :
        ~ValidKeywords(kw)
        => /\ ErrorKind(last.err) = "InvalidParameter"
           /\ bmi = last.pre

C9_Witness ==
    /\ last.op = "from_keywords"
    /\ Ready(last.pre)
    /\ PreTime > 0
    /\ last.args[1].n_rows = 0
    /\ last.err = RowsColsError

\* the names an initialized adapter's variable store must hold
TableNames(class) ==
    IF class = "BmiSoilMoisture"
    THEN StandardNames
    ELSE {"land_surface__elevation",
          "land_surface_water_suspended-sediment__divergence_of_unit-width_discharge"}

\* the dt given to the last initializing call
GivenDt ==
    IF last.op = "initialize" /\ bmi.class = "BmiSoilMoisture"
    THEN last.args[1].params.dt
    ELSE last.args[1].dt

C11_InitializePathLikeStream ==
    ( /\ bmi.class = "BmiSoilMoisture"
      /\ last.op = "initialize"
      /\ last.args[1].type = "str"
      /\ ValidKeywords(last.args[1].params) )
    => LET stream == BmiSoilMoisture_initialize(
                         last.pre, [type |-> "file", params |-> last.args[1].params],
                         1, TRUE, TRUE)
       IN  /\ last.err = OK
           /\ KeywordsGiven = {last.args[1].params}
           /\ Ready(bmi)
           /\ TimeOf(bmi) = Some(0)
           /\ get_time_step(bmi).ret = get_time_step(stream.bmi).ret
           /\ DOMAIN bmi._values = DOMAIN stream.bmi._values

InitializingOps == {"initialize", "from_keywords"}

\* C12: an initializing call on a Ready adapter is rejected with InvalidState
\* and leaves the adapter as it was; stated for the soil-moisture adapter
C12_ReinitializeRejected ==
    ( /\ bmi.class = "BmiSoilMoisture"
      /\ last.op \in InitializingOps
      /\ Ready(last.pre) )
    => /\ ErrorKind(last.err) = "InvalidState"
       /\ bmi = last.pre

\* C13: once the adapter is Ready no operation decreases current_time, and only
\* update, update_frac and update_until change it; stated for the soil-moisture
\* adapter
C13_TimeMonotonic ==
    ( /\ bmi.class = "BmiSoilMoisture"
      /\ Ready(last.pre) )
    => /\ TheValue(TimeOf(bmi)) >= PreTime
       /\ last.op \notin SteppingOps => TimeOf(bmi) = TimeOf(last.pre)

\* C14: in every Ready state time_step is strictly positive, and no operation on
\* a Ready adapter changes it; stated for the soil-moisture adapter
C14_TimeStepPositive ==
    ( /\ bmi.class = "BmiSoilMoisture"
      /\ Ready(bmi) )
    => /\ TheValue(get_time_step(bmi).ret) > 0
       /\ Ready(last.pre) => get_time_step(bmi).ret = get_time_step(last.pre).ret

\* the arrays the variable store names
StoreRefs(a) == {a._values[name] : name \in DOMAIN a._values}

\* every array the store named before the last call has the elements it had
StoreUnchanged == \A ref \in StoreRefs(last.pre) : heap[ref] = last.heap[ref]

ExchangeOps == {"get_value", "get_value_ptr", "set_value"}

\* C15: get_value(name) changes neither the adapter nor the stored arrays and
\* returns a new array, none of the store's, holding the elements of the stored
\* one; and a write by the caller into an array get_value returned leaves every
\* stored array, and so what get_value_ptr and get_value return later, as it was
C15_GetValueCopies ==
    /\ last.op = "get_value"
       => /\ bmi = last.pre
          /\ StoreUnchanged
          /\ last.err = OK
             => /\ last.args[1] \in output_names(bmi)
                /\ TheValue(last.ret) \notin StoreRefs(bmi)
                /\ heap[TheValue(last.ret)] = heap[bmi._values[last.args[1]]]
    /\ ( /\ last.op = "caller_write"
         /\ TheValue(held).by = "get_value" )
       => /\ bmi = last.pre
          /\ StoreUnchanged
          /\ LET p == get_value_ptr(bmi, heap, TheValue(held).name)
                 q == get_value_ptr(last.pre, last.heap, TheValue(held).name)
             IN  /\ p.err = q.err
                 /\ p.ret = q.ret
                 /\ p.err = OK => heap[TheValue(p.ret)] = last.heap[TheValue(q.ret)]

C15_Witness ==
    /\ Ready(bmi)
    /\ last.op = "caller_write"
    /\ TheValue(held).by = "get_value"
    /\ TheValue(held).name \in DOMAIN bmi._values
    /\ \A i \in DOMAIN heap[TheValue(held).ref] : heap[TheValue(held).ref][i] = 99
    /\ \E i \in DOMAIN heap[bmi._values[TheValue(held).name]] :
          heap[bmi._values[TheValue(held).name]][i] # 99

\* the grid the adapter's wrapped model works on
WrappedGrid(a) ==
    IF a.class = "BmiSoilMoisture" THEN TheValue(a._sm).grid ELSE TheValue(a._diffusion).grid

\* the caller keeps an array of the present store, got from get_value_ptr
HoldsPointer ==
    IF held = None
    THEN FALSE
    ELSE /\ TheValue(held).by = "get_value_ptr"
         /\ TheValue(held).name \in DOMAIN bmi._values
         /\ bmi._values[TheValue(held).name] = TheValue(held).ref

\* C16: get_value_ptr(name) returns the stored array itself, an array of the
\* wrapped model's grid, and allocates nothing; what the caller writes through it
\* is what get_value and get_value_ptr return afterwards and what the wrapped
\* model's next step computes from; and what that step writes is seen through a
\* reference the caller got before it
C16_GetValuePtrAliases ==
    /\ ( /\ last.op = "get_value_ptr"
         /\ last.err = OK )
       => /\ last.ret = Some(bmi._values[last.args[1]])
          /\ Ready(bmi) => TheValue(last.ret).grid = WrappedGrid(bmi)
          /\ DOMAIN heap = StoreRefs(bmi)
          /\ StoreUnchanged
    /\ ( /\ last.op = "caller_write"
         /\ HoldsPointer )
       => LET name == TheValue(held).name
              g == get_value(bmi, heap, name)
          IN  /\ \A i \in DOMAIN heap[bmi._values[name]] : heap[bmi._values[name]][i] = 99
              /\ get_value_ptr(bmi, heap, name).ret = Some(TheValue(held).ref)
              /\ g.heap[TheValue(g.ret)] = heap[TheValue(held).ref]
    /\ ( /\ last.op \in SteppingOps
         /\ Ready(last.pre)
         /\ last.err = OK
         /\ HoldsPointer )
       => /\ heap = WrappedStep(last.heap, last.pre)
          /\ TheValue(held).ref.grid = WrappedGrid(last.pre)

C16_Witness ==
    /\ last.op = "update"
    /\ last.err = OK
    /\ HoldsPointer
    /\ \A i \in DOMAIN last.heap[TheValue(held).ref] : last.heap[TheValue(held).ref][i] = 99
    /\ heap[TheValue(held).ref] # last.heap[TheValue(held).ref]

\* C17: set_value(name, src) with a name that is an input and an output and a
\* source of the target's length is followed by a get_value(name) that returns
\* the source's elements in order; the store names the same arrays as before and
\* every other stored array is as it was
C17_SetThenGet ==
    ( /\ last.op = "set_value"
      /\ last.args[1] \in input_names(bmi) \cap output_names(bmi)
      /\ last.args[1] \in DOMAIN last.pre._values
      /\ Len(flat(last.args[2])) = Len(last.heap[last.pre._values[last.args[1]]]) )
    => LET g == get_value(bmi, heap, last.args[1])
       IN  /\ last.err = OK
           /\ g.err = OK
           /\ g.heap[TheValue(g.ret)] = flat(last.args[2])
           /\ bmi = last.pre
           /\ \A ref \in StoreRefs(bmi) \ {bmi._values[last.args[1]]} : heap[ref] = last.heap[ref]

C17_Witness ==
    /\ bmi.class = "BmiStreamPower"
    /\ last.op = "set_value"
    /\ last.err = OK
    /\ last.args[1] = "land_surface__elevation"
    /\ Len(last.args[2]) = 9
    /\ heap[bmi._values["land_surface__elevation"]] = [i \in 1 .. 9 |-> 10 + i]
    /\ last.heap[bmi._values["land_surface__elevation"]] # heap[bmi._values["land_surface__elevation"]]

\* C18: set_value(name, src) with a declared, bound input name and a source
\* whose flattened length is not the target's fails with ShapeMismatch and
\* changes neither the adapter nor any array
C18_LengthMismatch ==
    ( /\ last.op = "set_value"
      /\ last.args[1] \in input_names(bmi)
      /\ last.args[1] \in DOMAIN last.pre._values
      /\ Len(flat(last.args[2])) # Len(last.heap[last.pre._values[last.args[1]]]) )
    => /\ ErrorKind(last.err) = "ShapeMismatch"
       /\ bmi = last.pre
       /\ heap = last.heap

\* C19: get_value and get_value_ptr with a name that is no output, and set_value
\* with a name that is no input, fail with UnknownVariable; and an exchange call
\* that fails changes neither the adapter nor any array
C19_UnknownVariable ==
    /\ ( /\ last.op \in {"get_value", "get_value_ptr"}
         /\ last.args[1] \notin output_names(bmi) )
       => ErrorKind(last.err) = "UnknownVariable"
    /\ ( /\ last.op = "set_value"
         /\ last.args[1] \notin input_names(bmi) )
       => ErrorKind(last.err) = "UnknownVariable"
    /\ ( /\ last.op \in ExchangeOps
         /\ last.err # OK )
       => /\ bmi = last.pre
          /\ heap = last.heap

C19_Witness ==
    /\ bmi.class = "BmiSoilMoisture"
    /\ Ready(bmi)
    /\ last.op = "get_value_ptr"
    /\ last.args[1] = "vegetated_land__area_fraction"
    /\ last.args[1] \in DOMAIN bmi._values
    /\ last.err = KeyError

\* C20: a Ready adapter's store has every input and every output name as a key,
\* so no set_value on an input and no get_value / get_value_ptr on an output
\* fails for want of an entry; and no stepping or exchange call changes the keys
\* or the arrays they name
C20_StoreKeys ==
    /\ Ready(bmi)
       => /\ input_names(bmi) \cup output_names(bmi) \subseteq DOMAIN bmi._values
          /\ StoreRefs(bmi) \subseteq DOMAIN heap
    /\ ( /\ Ready(last.pre)
         /\ last.op \in {"get_value", "get_value_ptr"}
         /\ last.args[1] \in output_names(bmi) )
       => last.err = OK
    /\ ( /\ Ready(last.pre)
         /\ last.op = "set_value"
         /\ last.args[1] \in input_names(bmi) )
       => last.err # KeyError
    /\ ( /\ Ready(last.pre)
         /\ last.op \in SteppingOps \cup ExchangeOps )
       => bmi._values = last.pre._values

C20_Witness ==
    /\ bmi.class = "BmiStreamPower"
    /\ Ready(last.pre)
    /\ last.op = "get_value"
    /\ last.args[1] = "land_surface_water_suspended-sediment__divergence_of_unit-width_discharge"
    /\ last.err = OK
    /\ TimeOf(bmi) = Some(20)

\* the wrapped-model steps of the last call that returned
CompletedSteps ==
    IF last.err = CollaboratorError
    THEN Len(WrappedCalls(last.log)) - 1
    ELSE Len(WrappedCalls(last.log))

\* the update() calls update_until made that returned
CompletedUpdates ==
    LET made == Len(SelectSeq(last.log, LAMBDA e : e.call = "update" /\ e.by = "update_until"))
    IN  IF CompletedSteps < made THEN CompletedSteps ELSE made

\* C24: update_until(target_time) on a Ready adapter at t0 <= target_time leaves
\* t0 <= current_time <= target_time, whether it returns or raises, as does every
\* whole step it completes on the way; and when it raises after k completed
\* update() calls current_time is t0 + k * time_step
C24_UpdateUntilNoOvershoot ==
    ( /\ last.op = "update_until"
      /\ Ready(last.pre)
      /\ last.args[1] >= PreTime )
    => /\ PreTime <= TheValue(TimeOf(bmi))
       /\ TheValue(TimeOf(bmi)) <= last.args[1]
       /\ \A k \in 0 .. CompletedUpdates :
             /\ PreTime <= PreTime + k * PreTimeStep
             /\ PreTime + k * PreTimeStep <= last.args[1]
       /\ last.err # OK => TheValue(TimeOf(bmi)) = PreTime + CompletedUpdates * PreTimeStep

C24_Witness ==
    /\ last.op = "update_until"
    /\ Ready(last.pre)
    /\ last.err = CollaboratorError
    /\ CompletedUpdates = 2
    /\ PreTime = 5
    /\ last.args[1] = 30
    /\ TimeOf(bmi) = Some(25)

OverlandFlowTwin ==
    [initialize_from_line_67(BmiOverlandFlow__init__, PreTimeStep)
        EXCEPT !._time = TimeOf(last.pre)]

\* the last call, made on the overland-flow twin with no collaborator failing
TwinCall ==
    CASE last.op = "update" -> BmiOverlandFlow_update(OverlandFlowTwin, TRUE)
      [] last.op = "update_frac" ->
            BmiOverlandFlow_update_frac(OverlandFlowTwin, last.args[1], TRUE)
      [] last.op = "update_until" ->
            BmiOverlandFlow_update_until(OverlandFlowTwin, last.args[1], 0)

\* C21: an update, update_frac or update_until on a Ready soil-moisture adapter
\* (no collaborator failing) and the same call on an overland-flow adapter with
\* the same time step at the same time both succeed or both fail, and leave the
\* same current_time
C21_OverlandFlowLikeSoilMoisture ==
    ( /\ bmi.class = "BmiSoilMoisture"
      /\ last.op \in SteppingOps
      /\ Ready(last.pre)
      /\ NoCollaboratorFailure )
    => /\ (TwinCall.err = OK) <=> (last.err = OK)
       /\ TimeOf(TwinCall.bmi) = TimeOf(bmi)

\* C22: get_grid_shape(name) on a Ready adapter returns the cell shape
\* (n_rows - 2, n_cols - 2) of a soil-moisture adapter's grid and the node shape
\* (n_rows, n_cols) of a diffusion or overland-flow adapter's, and for every
\* output name get_value(name) returns an array of rows * cols elements
C22_GridShapeOfLocation ==
    ( /\ last.op = "get_grid_shape"
      /\ Ready(last.pre) )
    => /\ last.err = OK
       /\ LET shape == TheValue(last.ret)
              grid == TheValue(bmi._grid)
          IN  /\ shape = IF bmi.class = "BmiSoilMoisture"
                         THEN <<grid.number_of_node_rows - 2, grid.number_of_node_columns - 2>>
                         ELSE <<grid.number_of_node_rows, grid.number_of_node_columns>>
              /\ \A name \in output_names(bmi) :
                    LET value == get_value(bmi, heap, name)
                    IN  /\ value.err = OK
                        /\ Len(value.heap[TheValue(value.ret)]) = shape[1] * shape[2]

C22_Witness ==
    /\ bmi.class = "BmiSoilMoisture"
    /\ last.op = "get_grid_shape"
    /\ last.args[1] = "Drainage"
    /\ last.ret = Some(<<1, 2>>)
    /\ held # None
    /\ TheValue(held).by = "get_value"
    /\ TheValue(held).name = "Drainage"
    /\ Len(heap[TheValue(held).ref]) = 2

MetadataOps ==
    {"get_component_name", "get_input_var_names", "get_output_var_names",
     "get_start_time", "get_end_time", "get_current_time", "get_time_step",
     "get_time_units", "get_grid_shape", "get_grid_spacing", "get_grid_origin"}

\* a metadata accessor leaves the adapter and every array as they were, and the
\* component name and the name tuples it returns are those of the class
MetadataPure ==
    /\ last.op \in MetadataOps
       => /\ bmi = last.pre
          /\ heap = last.heap
    /\ last.op = "get_component_name"
       => last.ret = Some(_name(bmi.class))
    /\ last.op = "get_input_var_names"
       => last.ret = Some(_input_var_names(bmi.class))
    /\ last.op = "get_output_var_names"
       => last.ret = Some(_output_var_names(bmi.class))

\* t1 <= t2 for times of which the second may be the largest double
NotAfter(t1, t2) == IF t2 = finfo_d_max THEN TRUE ELSE t1 <= t2

\* C23: the metadata accessors change no adapter state, the component name and
\* the input and output name tuples are the class's fixed values in every state,
\* and in every Ready state start time (0) <= current_time <= end time
C23_MetadataPureAndTimeWithinBounds ==
    /\ MetadataPure
    /\ Ready(bmi)
       => /\ TheValue(get_start_time(bmi).ret) = 0
          /\ TheValue(get_start_time(bmi).ret) <= TheValue(TimeOf(bmi))
          /\ NotAfter(TheValue(TimeOf(bmi)), TheValue(get_end_time(bmi).ret))

====
